---- MODULE Spec2Model ----
(***************************************************************************)
(* Model of src/src/stores.rs: the two dense stores of the ensemble        *)
(* sampler, Chain (parameter x walker x iteration) and ProbStore (walker x *)
(* iteration), their index arithmetic, accessors, bulk setters and         *)
(* flattening operations.                                                  *)
(*                                                                         *)
(* f64 values are modelled as the naturals 0..MaxVal, 0 standing for 0.0.  *)
(* usize is modelled as the naturals below Modulus = 2^WordBits; the       *)
(* arithmetic of the source is kept with that width.  A panic ends the     *)
(* program: no operation is taken after one.                               *)
(***************************************************************************)
EXTENDS Integers, Sequences, FiniteSets, TLC

VARIABLES
    chain,            \* the Chain, or NoStore before Chain::new
    prob,             \* the ProbStore, or NoStore before ProbStore::new
    overflow_checks,  \* TRUE: the build panics on usize overflow; FALSE: it wraps
    last,             \* the last call: [op, args, panic, ret]
    ops,              \* number of calls made so far
    chainLog,         \* history: (p, w, i) -> value of the last successful write
    probLog           \* history: (w, i) -> value of the last successful write

vars == <<chain, prob, overflow_checks, last, ops, chainLog, probLog>>

-----------------------------------------------------------------------------
(* Bounds of the model *)

MaxDim == 2
MaxVal == 2
MaxOps == 3
MaxCells == 4
WordBits == 10

(* Size of one f64 in bytes *)
ElemBytes == 8

RECURSIVE Pow2(_)
Pow2(n) == IF n = 0 THEN 1 ELSE 2 * Pow2(n - 1)

Modulus == Pow2(WordBits)
IsizeMax == Modulus \div 2 - 1

Dims == 0..MaxDim
Values == 1..MaxVal

(* A dimension whose triple is just past the word: 3 * BigDim wraps. *)
BigDim == (Modulus + 2) \div 3
WideDims == {0, 1, 3, BigDim - 1, BigDim}

NoStore == [none |-> TRUE]
NoPanic == <<>>
Unit == <<>>

Panicked(r) == Len(r.panic) > 0

-----------------------------------------------------------------------------
(* usize arithmetic *)

MulW(a, b) == [val |-> (a * b) % Modulus, ovf |-> a * b >= Modulus]
AddW(a, b) == [val |-> (a + b) % Modulus, ovf |-> a + b >= Modulus]

(* vec![0f64; len] *)
VecZero(len) ==
    IF len * ElemBytes > IsizeMax
    THEN [panic |-> <<"capacity overflow">>, data |-> <<>>]
    ELSE [panic |-> NoPanic, data |-> [k \in 1..len |-> 0]]

-----------------------------------------------------------------------------
(* Chain *)

ChainNewOp(nparams, nwalkers, niterations) ==
    LET m1 == MulW(nparams, nwalkers)
        m2 == MulW(m1.val, niterations)
    IN  IF overflow_checks /\ (m1.ovf \/ m2.ovf)
        THEN [panic |-> <<"attempt to multiply with overflow">>, self |-> NoStore]
        ELSE LET v == VecZero(m2.val)
             IN  IF Panicked(v)
                 THEN [panic |-> v.panic, self |-> NoStore]
                 ELSE [panic |-> NoPanic,
                       self |-> [nparams |-> nparams, nwalkers |-> nwalkers,
                                 niterations |-> niterations, data |-> v.data]]

\* mutant: the iteration stride leaves out nparams
ChainIndexNoParamStride(c, param_idx, walker_idx, iteration_idx) ==
    [panic |-> NoPanic,
     val |-> ((iteration_idx * c.nwalkers) + (walker_idx * c.nparams) + param_idx)
             % Modulus]

ChainIndex(c, param_idx, walker_idx, iteration_idx) ==
    LET m1 == MulW(iteration_idx, c.nwalkers)
        m2 == MulW(m1.val, c.nparams)
        m3 == MulW(walker_idx, c.nparams)
        a1 == AddW(m2.val, m3.val)
        a2 == AddW(a1.val, param_idx)
    IN  IF overflow_checks /\ (m1.ovf \/ m2.ovf \/ m3.ovf)
        THEN [panic |-> <<"attempt to multiply with overflow">>, val |-> 0]
        ELSE IF overflow_checks /\ (a1.ovf \/ a2.ovf)
        THEN [panic |-> <<"attempt to add with overflow">>, val |-> 0]
        ELSE [panic |-> NoPanic, val |-> a2.val]

\* mutant: the parameter index is not asserted
ChainBoundsPanicNoParam(c, param_idx, walker_idx, iteration_idx) ==
    IF ~(walker_idx < c.nwalkers)
    THEN <<"assertion failed: walker_idx < self.nwalkers">>
    ELSE IF ~(iteration_idx < c.niterations)
    THEN <<"assertion failed: iteration_idx < self.niterations">>
    ELSE NoPanic

ChainBoundsPanic(c, param_idx, walker_idx, iteration_idx) ==
    IF ~(param_idx < c.nparams)
    THEN <<"assertion failed: param_idx < self.nparams">>
    ELSE IF ~(walker_idx < c.nwalkers)
    THEN <<"assertion failed: walker_idx < self.nwalkers">>
    ELSE IF ~(iteration_idx < c.niterations)
    THEN <<"assertion failed: iteration_idx < self.niterations">>
    ELSE NoPanic

SliceIndexPanic(data, idx) ==
    IF idx >= Len(data)
    THEN <<"index out of bounds: the len is ", Len(data), " but the index is ", idx>>
    ELSE NoPanic

ChainSetOp(c, param_idx, walker_idx, iteration_idx, value) ==
    LET b == ChainBoundsPanic(c, param_idx, walker_idx, iteration_idx)
        ix == ChainIndex(c, param_idx, walker_idx, iteration_idx)
    IN  IF Len(b) > 0 THEN [panic |-> b, self |-> c]
        ELSE IF Panicked(ix) THEN [panic |-> ix.panic, self |-> c]
        ELSE IF Len(SliceIndexPanic(c.data, ix.val)) > 0
        THEN [panic |-> SliceIndexPanic(c.data, ix.val), self |-> c]
        ELSE [panic |-> NoPanic,
              self |-> [c EXCEPT !.data = [c.data EXCEPT ![ix.val + 1] = value]]]

ChainGetOp(c, param_idx, walker_idx, iteration_idx) ==
    LET b == ChainBoundsPanic(c, param_idx, walker_idx, iteration_idx)
        ix == ChainIndex(c, param_idx, walker_idx, iteration_idx)
    IN  IF Len(b) > 0 THEN [panic |-> b, val |-> 0]
        ELSE IF Panicked(ix) THEN [panic |-> ix.panic, val |-> 0]
        ELSE IF Len(SliceIndexPanic(c.data, ix.val)) > 0
        THEN [panic |-> SliceIndexPanic(c.data, ix.val), val |-> 0]
        ELSE [panic |-> NoPanic, val |-> c.data[ix.val + 1]]

\* the enumerate loop of set_params: one set per element, ascending
RECURSIVE SetParamsLoop(_, _, _, _, _)
SetParamsLoop(c, walker_idx, iteration_idx, newdata, idx) ==
    IF idx >= Len(newdata)
    THEN [panic |-> NoPanic, self |-> c]
    ELSE LET r == ChainSetOp(c, idx, walker_idx, iteration_idx, newdata[idx + 1])
         IN  IF Panicked(r) THEN r
             ELSE SetParamsLoop(r.self, walker_idx, iteration_idx, newdata, idx + 1)

\* mutant: walker and iteration index handed to set in the wrong order
SetParamsOpSwapped(c, walker_idx, iteration_idx, newdata) ==
    IF Len(newdata) # c.nparams
    THEN [panic |-> <<"assertion failed: left == right", Len(newdata), c.nparams>>,
          self |-> c]
    ELSE SetParamsLoop(c, iteration_idx, walker_idx, newdata, 0)

\* mutant: no length assertion
SetParamsOpNoLenCheck(c, walker_idx, iteration_idx, newdata) ==
    SetParamsLoop(c, walker_idx, iteration_idx, newdata, 0)

\* mutant: the length is asserted after the loop
SetParamsOpLateCheck(c, walker_idx, iteration_idx, newdata) ==
    LET r == SetParamsLoop(c, walker_idx, iteration_idx, newdata, 0)
    IN  IF Panicked(r) THEN r
        ELSE IF Len(newdata) # c.nparams
        THEN [panic |-> <<"assertion failed: left == right", Len(newdata), c.nparams>>,
              self |-> r.self]
        ELSE r

SetParamsOp(c, walker_idx, iteration_idx, newdata) ==
    IF Len(newdata) # c.nparams
    THEN [panic |-> <<"assertion failed: left == right", Len(newdata), c.nparams>>,
          self |-> c]
    ELSE SetParamsLoop(c, walker_idx, iteration_idx, newdata, 0)

\* the inner loop of flatchain: buffer[i] = self.get(i, walker, iter)
RECURSIVE FlatchainFill(_, _, _, _, _)
FlatchainFill(c, walker, iter, buffer, i) ==
    IF i >= Len(buffer)
    THEN [panic |-> NoPanic, buffer |-> buffer]
    ELSE LET g == ChainGetOp(c, i, walker, iter)
         IN  IF Panicked(g) THEN [panic |-> g.panic, buffer |-> buffer]
             ELSE FlatchainFill(c, walker, iter, [buffer EXCEPT ![i + 1] = g.val], i + 1)

(* the two nested loops of flatchain, iter outer, walker inner *)
RECURSIVE FlatchainLoop(_, _, _, _, _)
FlatchainLoop(c, iter, walker, buffer, out) ==
    IF iter >= c.niterations THEN [panic |-> NoPanic, out |-> out]
    ELSE IF walker >= c.nwalkers THEN FlatchainLoop(c, iter + 1, 0, buffer, out)
    ELSE LET f == FlatchainFill(c, walker, iter, buffer, 0)
         IN  IF Panicked(f) THEN [panic |-> f.panic, out |-> out]
             ELSE FlatchainLoop(c, iter, walker + 1, f.buffer,
                                Append(out, [values |-> f.buffer]))

\* mutant: walkers in the outer loop, iterations in the inner one
RECURSIVE FlatchainLoopWalkerMajor(_, _, _, _, _)
FlatchainLoopWalkerMajor(c, walker, iter, buffer, out) ==
    IF walker >= c.nwalkers THEN [panic |-> NoPanic, out |-> out]
    ELSE IF iter >= c.niterations THEN FlatchainLoopWalkerMajor(c, walker + 1, 0, buffer, out)
    ELSE LET f == FlatchainFill(c, walker, iter, buffer, 0)
         IN  IF Panicked(f) THEN [panic |-> f.panic, out |-> out]
             ELSE FlatchainLoopWalkerMajor(c, walker, iter + 1, f.buffer,
                                           Append(out, [values |-> f.buffer]))

FlatchainOpWalkerMajor(c) ==
    FlatchainLoopWalkerMajor(c, 0, 0, [k \in 1..c.nparams |-> 0], <<>>)

FlatchainOp(c) ==
    LET cap == MulW(c.niterations, c.nwalkers)
        buf == VecZero(c.nparams)
    IN  IF overflow_checks /\ cap.ovf
        THEN [panic |-> <<"attempt to multiply with overflow">>, out |-> <<>>]
        ELSE IF Panicked(buf) THEN [panic |-> buf.panic, out |-> <<>>]
        ELSE FlatchainLoop(c, 0, 0, buf.data, <<>>)

-----------------------------------------------------------------------------
(* ProbStore *)

ProbNewOp(nwalkers, niterations) ==
    LET m == MulW(nwalkers, niterations)
    IN  IF overflow_checks /\ m.ovf
        THEN [panic |-> <<"attempt to multiply with overflow">>, self |-> NoStore]
        ELSE LET v == VecZero(m.val)
             IN  IF Panicked(v)
                 THEN [panic |-> v.panic, self |-> NoStore]
                 ELSE [panic |-> NoPanic,
                       self |-> [nwalkers |-> nwalkers, niterations |-> niterations,
                                 data |-> v.data]]

\* mutant: the layout transposed
ProbIndexTransposed(s, walker_idx, iteration_idx) ==
    [panic |-> NoPanic,
     val |-> ((walker_idx * s.niterations) + iteration_idx) % Modulus]

ProbIndex(s, walker_idx, iteration_idx) ==
    LET m == MulW(iteration_idx, s.nwalkers)
        a == AddW(m.val, walker_idx)
    IN  IF overflow_checks /\ m.ovf
        THEN [panic |-> <<"attempt to multiply with overflow">>, val |-> 0]
        ELSE IF overflow_checks /\ a.ovf
        THEN [panic |-> <<"attempt to add with overflow">>, val |-> 0]
        ELSE [panic |-> NoPanic, val |-> a.val]

\* mutant: the iteration index is asserted first
ProbBoundsPanicIterationFirst(s, walker_idx, iteration_idx) ==
    IF ~(iteration_idx < s.niterations)
    THEN <<"iteration index ", iteration_idx,
           ", number of iterations required: ", s.niterations>>
    ELSE IF ~(walker_idx < s.nwalkers)
    THEN <<"assertion failed: walker_idx < self.nwalkers">>
    ELSE NoPanic

(* The message of the second assertion is the format string with its two
   arguments, the iteration index passed and the configured count. *)
ProbBoundsPanic(s, walker_idx, iteration_idx) ==
    IF ~(walker_idx < s.nwalkers)
    THEN <<"assertion failed: walker_idx < self.nwalkers">>
    ELSE IF ~(iteration_idx < s.niterations)
    THEN <<"iteration index ", iteration_idx,
           ", number of iterations required: ", s.niterations>>
    ELSE NoPanic

ProbSetOp(s, walker_idx, iteration_idx, value) ==
    LET b == ProbBoundsPanic(s, walker_idx, iteration_idx)
        ix == ProbIndex(s, walker_idx, iteration_idx)
    IN  IF Len(b) > 0 THEN [panic |-> b, self |-> s]
        ELSE IF Panicked(ix) THEN [panic |-> ix.panic, self |-> s]
        ELSE IF Len(SliceIndexPanic(s.data, ix.val)) > 0
        THEN [panic |-> SliceIndexPanic(s.data, ix.val), self |-> s]
        ELSE [panic |-> NoPanic,
              self |-> [s EXCEPT !.data = [s.data EXCEPT ![ix.val + 1] = value]]]

ProbGetOp(s, walker_idx, iteration_idx) ==
    LET b == ProbBoundsPanic(s, walker_idx, iteration_idx)
        ix == ProbIndex(s, walker_idx, iteration_idx)
    IN  IF Len(b) > 0 THEN [panic |-> b, val |-> 0]
        ELSE IF Panicked(ix) THEN [panic |-> ix.panic, val |-> 0]
        ELSE IF Len(SliceIndexPanic(s.data, ix.val)) > 0
        THEN [panic |-> SliceIndexPanic(s.data, ix.val), val |-> 0]
        ELSE [panic |-> NoPanic, val |-> s.data[ix.val + 1]]

RECURSIVE SetProbsLoop(_, _, _, _)
SetProbsLoop(s, iteration_idx, newdata, idx) ==
    IF idx >= Len(newdata)
    THEN [panic |-> NoPanic, self |-> s]
    ELSE LET r == ProbSetOp(s, idx, iteration_idx, newdata[idx + 1])
         IN  IF Panicked(r) THEN r
             ELSE SetProbsLoop(r.self, iteration_idx, newdata, idx + 1)

SetProbsOp(s, iteration_idx, newdata) ==
    IF Len(newdata) # s.nwalkers
    THEN [panic |-> <<"assertion failed: left == right", Len(newdata), s.nwalkers>>,
          self |-> s]
    ELSE SetProbsLoop(s, iteration_idx, newdata, 0)

RECURSIVE FlatprobLoop(_, _, _, _)
FlatprobLoop(s, iter, walker, out) ==
    IF iter >= s.niterations THEN [panic |-> NoPanic, out |-> out]
    ELSE IF walker >= s.nwalkers THEN FlatprobLoop(s, iter + 1, 0, out)
    ELSE LET g == ProbGetOp(s, walker, iter)
         IN  IF Panicked(g) THEN [panic |-> g.panic, out |-> out]
             ELSE FlatprobLoop(s, iter, walker + 1, Append(out, g.val))

\* mutant: walkers in the outer loop, iterations in the inner one
RECURSIVE FlatprobLoopWalkerMajor(_, _, _, _)
FlatprobLoopWalkerMajor(s, walker, iter, out) ==
    IF walker >= s.nwalkers THEN [panic |-> NoPanic, out |-> out]
    ELSE IF iter >= s.niterations THEN FlatprobLoopWalkerMajor(s, walker + 1, 0, out)
    ELSE LET g == ProbGetOp(s, walker, iter)
         IN  IF Panicked(g) THEN [panic |-> g.panic, out |-> out]
             ELSE FlatprobLoopWalkerMajor(s, walker, iter + 1, Append(out, g.val))

FlatprobOpWalkerMajor(s) == FlatprobLoopWalkerMajor(s, 0, 0, <<>>)

FlatprobOp(s) ==
    LET cap == MulW(s.niterations, s.nwalkers)
    IN  IF overflow_checks /\ cap.ovf
        THEN [panic |-> <<"attempt to multiply with overflow">>, out |-> <<>>]
        ELSE FlatprobLoop(s, 0, 0, <<>>)

-----------------------------------------------------------------------------
(* The calls a client makes.  D is the set the index and dimension          *)
(* arguments are drawn from; it reaches one past every dimension.           *)

\* newdata slices: every length up to MaxDim + 1, neighbouring values distinct
SliceOf(n, s) == [k \in 1..n |-> ((s + k - 2) % MaxVal) + 1]
Slices == {SliceOf(n, s) : n \in 0..(MaxDim + 1), s \in Values}

Alive == Len(last.panic) = 0 /\ ops < MaxOps

Call(op, args, panic, ret) ==
    /\ last' = [op |-> op, args |-> args, panic |-> panic, ret |-> ret]
    /\ ops' = ops + 1
    /\ UNCHANGED overflow_checks

(* Construction.  A run holds one store: Chain and ProbStore share no state. *)
ConstructChain(nparams, nwalkers, niterations) ==
    LET r == ChainNewOp(nparams, nwalkers, niterations)
    IN  /\ chain = r.self
        /\ prob = NoStore
        /\ last = [op |-> "Chain::new", args |-> <<nparams, nwalkers, niterations>>,
                   panic |-> r.panic, ret |-> Unit]

ConstructProb(nwalkers, niterations) ==
    LET r == ProbNewOp(nwalkers, niterations)
    IN  /\ prob = r.self
        /\ chain = NoStore
        /\ last = [op |-> "ProbStore::new", args |-> <<nwalkers, niterations>>,
                   panic |-> r.panic, ret |-> Unit]

Fresh ==
    /\ overflow_checks \in BOOLEAN
    /\ ops = 0
    /\ chainLog = <<>>
    /\ probLog = <<>>

Init ==
    /\ Fresh
    /\ \/ \E nparams \in Dims, nwalkers \in Dims, niterations \in Dims :
             /\ nparams * nwalkers * niterations <= MaxCells
             /\ ConstructChain(nparams, nwalkers, niterations)
       \/ \E nwalkers \in Dims, niterations \in Dims :
             /\ nwalkers * niterations <= MaxCells
             /\ ConstructProb(nwalkers, niterations)

(* Dimensions at the edge of the word: the size product overflows. *)
InitWide ==
    /\ Fresh
    /\ \E nparams \in WideDims, nwalkers \in WideDims, niterations \in WideDims :
          ConstructChain(nparams, nwalkers, niterations)

ChainSet(D) ==
    /\ Alive
    /\ chain # NoStore
    /\ \E param_idx \in D, walker_idx \in D, iteration_idx \in D, value \in Values :
          LET r == ChainSetOp(chain, param_idx, walker_idx, iteration_idx, value)
              t == <<param_idx, walker_idx, iteration_idx>>
          IN  /\ chain' = r.self
              /\ chainLog' = IF Panicked(r) THEN chainLog ELSE (t :> value) @@ chainLog
              /\ Call("Chain::set", <<param_idx, walker_idx, iteration_idx, value>>,
                      r.panic, Unit)
    /\ UNCHANGED <<prob, probLog>>

ChainGet(D) ==
    /\ Alive
    /\ chain # NoStore
    /\ \E param_idx \in D, walker_idx \in D, iteration_idx \in D :
          LET r == ChainGetOp(chain, param_idx, walker_idx, iteration_idx)
          IN  Call("Chain::get", <<param_idx, walker_idx, iteration_idx>>,
                   r.panic, IF Panicked(r) THEN Unit ELSE <<r.val>>)
    /\ UNCHANGED <<chain, prob, chainLog, probLog>>

ChainSetParams(D) ==
    /\ Alive
    /\ chain # NoStore
    /\ \E walker_idx \in D, iteration_idx \in D, newdata \in Slices :
          LET r == SetParamsOp(chain, walker_idx, iteration_idx, newdata)
              cells == {<<p, walker_idx, iteration_idx>> : p \in 0..(Len(newdata) - 1)}
          IN  /\ chain' = r.self
              /\ chainLog' = IF Panicked(r) THEN chainLog
                             ELSE [t \in cells |-> newdata[t[1] + 1]] @@ chainLog
              /\ Call("Chain::set_params", <<walker_idx, iteration_idx, newdata>>,
                      r.panic, Unit)
    /\ UNCHANGED <<prob, probLog>>

ChainFlatchain ==
    /\ Alive
    /\ chain # NoStore
    /\ LET r == FlatchainOp(chain)
       IN  Call("Chain::flatchain", <<>>, r.panic, r.out)
    /\ UNCHANGED <<chain, prob, chainLog, probLog>>

ProbSet(D) ==
    /\ Alive
    /\ prob # NoStore
    /\ \E walker_idx \in D, iteration_idx \in D, value \in Values :
          LET r == ProbSetOp(prob, walker_idx, iteration_idx, value)
              t == <<walker_idx, iteration_idx>>
          IN  /\ prob' = r.self
              /\ probLog' = IF Panicked(r) THEN probLog ELSE (t :> value) @@ probLog
              /\ Call("ProbStore::set", <<walker_idx, iteration_idx, value>>,
                      r.panic, Unit)
    /\ UNCHANGED <<chain, chainLog>>

ProbGet(D) ==
    /\ Alive
    /\ prob # NoStore
    /\ \E walker_idx \in D, iteration_idx \in D :
          LET r == ProbGetOp(prob, walker_idx, iteration_idx)
          IN  Call("ProbStore::get", <<walker_idx, iteration_idx>>,
                   r.panic, IF Panicked(r) THEN Unit ELSE <<r.val>>)
    /\ UNCHANGED <<chain, prob, chainLog, probLog>>

ProbSetProbs(D) ==
    /\ Alive
    /\ prob # NoStore
    /\ \E iteration_idx \in D, newdata \in Slices :
          LET r == SetProbsOp(prob, iteration_idx, newdata)
              cells == {<<w, iteration_idx>> : w \in 0..(Len(newdata) - 1)}
          IN  /\ prob' = r.self
              /\ probLog' = IF Panicked(r) THEN probLog
                            ELSE [t \in cells |-> newdata[t[1] + 1]] @@ probLog
              /\ Call("ProbStore::set_probs", <<iteration_idx, newdata>>, r.panic, Unit)
    /\ UNCHANGED <<chain, chainLog>>

ProbFlatprob ==
    /\ Alive
    /\ prob # NoStore
    /\ LET r == FlatprobOp(prob)
       IN  Call("ProbStore::flatprob", <<>>, r.panic, r.out)
    /\ UNCHANGED <<chain, prob, chainLog, probLog>>

Next ==
    \/ ChainSet(Dims)
    \/ ChainGet(Dims)
    \/ ChainSetParams(Dims)
    \/ ChainFlatchain
    \/ ProbSet(Dims)
    \/ ProbGet(Dims)
    \/ ProbSetProbs(Dims)
    \/ ProbFlatprob

Spec == Init /\ [][Next]_vars

(* Over the wide shapes only the per-cell calls are taken: the index sum    *)
(* overflows there.  The flattening and bulk calls are left to Spec.        *)
NextWide ==
    \/ ChainSet(WideDims)
    \/ ChainGet(WideDims)

SpecWide == InitWide /\ [][NextWide]_vars

-----------------------------------------------------------------------------
(* Properties *)

ChainCells(c) ==
    {<<p, w, i>> : p \in 0..(c.nparams - 1), w \in 0..(c.nwalkers - 1),
                   i \in 0..(c.niterations - 1)}
ProbCells(s) ==
    {<<w, i>> : w \in 0..(s.nwalkers - 1), i \in 0..(s.niterations - 1)}

HasChain == chain # NoStore
HasProb == prob # NoStore
Returned(op) == last.op = op /\ ~Panicked(last)

\* the value the history gives a cell: its last write, 0.0 when never written
Logged(log, t) == IF t \in DOMAIN log THEN log[t] ELSE 0

(* C1: in both stores get at every valid index returns the value of the most
   recent write to that index and 0.0 where nothing was written; a write to
   one index changes the value read at no other valid index. *)
C1_ReadsLastWrite ==
    /\ HasChain =>
          \A t \in ChainCells(chain) :
             LET g == ChainGetOp(chain, t[1], t[2], t[3])
             IN  ~Panicked(g) /\ g.val = Logged(chainLog, t)
    /\ Returned("Chain::get") => last.ret = <<Logged(chainLog, last.args)>>
    /\ HasProb =>
          \A t \in ProbCells(prob) :
             LET g == ProbGetOp(prob, t[1], t[2])
             IN  ~Panicked(g) /\ g.val = Logged(probLog, t)
    /\ Returned("ProbStore::get") => last.ret = <<Logged(probLog, last.args)>>

\* a get returns an earlier write although another cell was written since,
\* with another value, and a third cell was never written
C1_Witness ==
    /\ Returned("Chain::get")
    /\ last.args \in DOMAIN chainLog
    /\ Cardinality(DOMAIN chainLog) = 2
    /\ \E t \in DOMAIN chainLog : chainLog[t] # chainLog[last.args]
    /\ last.ret = <<chainLog[last.args]>>
    /\ Cardinality(ChainCells(chain)) > 2

(* C2: for every shape and every valid triple, index(p, w, i) equals
   i*nwalkers*nparams + w*nparams + p, lies in [0, nparams*nwalkers*niterations)
   and distinct valid triples get distinct indices; likewise index(w, i) =
   i*nwalkers + w of ProbStore lies in [0, nwalkers*niterations) and is
   injective over the valid pairs. *)
C2_IndexBijective ==
    /\ HasChain =>
          /\ \A t \in ChainCells(chain) :
                LET ix == ChainIndex(chain, t[1], t[2], t[3])
                IN  /\ ~Panicked(ix)
                    /\ ix.val = t[3] * chain.nwalkers * chain.nparams
                                + t[2] * chain.nparams + t[1]
                    /\ ix.val >= 0
                    /\ ix.val < chain.nparams * chain.nwalkers * chain.niterations
          /\ \A t, u \in ChainCells(chain) :
                ChainIndex(chain, t[1], t[2], t[3]).val
                   = ChainIndex(chain, u[1], u[2], u[3]).val => t = u
    /\ HasProb =>
          /\ \A t \in ProbCells(prob) :
                LET ix == ProbIndex(prob, t[1], t[2])
                IN  /\ ~Panicked(ix)
                    /\ ix.val = t[2] * prob.nwalkers + t[1]
                    /\ ix.val >= 0
                    /\ ix.val < prob.nwalkers * prob.niterations
          /\ \A t, u \in ProbCells(prob) :
                ProbIndex(prob, t[1], t[2]).val = ProbIndex(prob, u[1], u[2]).val
                   => t = u

\* a set has used the index of the last slot of a store of several
\* parameters and iterations
C2_Witness ==
    /\ Returned("Chain::set")
    /\ chain.nparams > 1
    /\ chain.niterations > 1
    /\ ChainIndex(chain, last.args[1], last.args[2], last.args[3]).val
          = Len(chain.data) - 1
    /\ chain.data[Len(chain.data)] = last.args[4]

(* C3: flatchain returns exactly niterations*nwalkers Guess values (none when
   niterations or nwalkers is 0); the Guess at position k holds, in parameter
   order, the values get(p, k % nwalkers, k / nwalkers) now stored. *)
C3_Flatchain ==
    last.op = "Chain::flatchain" =>
       /\ ~Panicked(last)
       /\ Len(last.ret) = chain.niterations * chain.nwalkers
       /\ \A k \in 0..(Len(last.ret) - 1) :
             /\ Len(last.ret[k + 1].values) = chain.nparams
             /\ \A p \in 0..(chain.nparams - 1) :
                   LET g == ChainGetOp(chain, p, k % chain.nwalkers, k \div chain.nwalkers)
                   IN  ~Panicked(g) /\ last.ret[k + 1].values[p + 1] = g.val

\* flatchain of two walkers and two iterations whose second and third Guess
\* differ, so that the order of the two loops shows
C3_Witness ==
    /\ Returned("Chain::flatchain")
    /\ chain.nwalkers = 2
    /\ chain.niterations = 2
    /\ Len(last.ret) = 4
    /\ last.ret[2].values # last.ret[3].values

(* C4: flatprob returns exactly niterations*nwalkers scalars, the element at
   position k being get(k % nwalkers, k / nwalkers): the flattened sequence is
   the underlying buffer read in index order. *)
C4_Flatprob ==
    last.op = "ProbStore::flatprob" =>
       /\ ~Panicked(last)
       /\ Len(last.ret) = prob.niterations * prob.nwalkers
       /\ \A k \in 0..(Len(last.ret) - 1) :
             LET g == ProbGetOp(prob, k % prob.nwalkers, k \div prob.nwalkers)
             IN  ~Panicked(g) /\ last.ret[k + 1] = g.val
       /\ last.ret = prob.data

C4_Witness ==
    /\ Returned("ProbStore::flatprob")
    /\ prob.nwalkers = 2
    /\ prob.niterations = 2
    /\ Len(last.ret) = 4
    /\ last.ret[2] # last.ret[3]
    /\ last.ret[2] # 0

\* the store after set(p, w, i, values[p]) for p = idx, idx + 1, ... in turn
RECURSIVE AscendingSets(_, _, _, _, _)
AscendingSets(c, w, i, values, idx) ==
    IF idx >= Len(values) THEN c
    ELSE AscendingSets(ChainSetOp(c, idx, w, i, values[idx + 1]).self, w, i, values, idx + 1)

C5_SetParamsStep ==
    (last'.op = "Chain::set_params" /\ ~Panicked(last')) =>
       LET w == last'.args[1]
           i == last'.args[2]
           values == last'.args[3]
       IN  /\ chain' = AscendingSets(chain, w, i, values, 0)
           /\ (w < chain.nwalkers /\ i < chain.niterations) =>
                 \A p \in 0..(chain.nparams - 1) :
                    LET g == ChainGetOp(chain', p, w, i)
                    IN  ~Panicked(g) /\ g.val = values[p + 1]
           /\ \A t \in ChainCells(chain) :
                 (t[2] # w \/ t[3] # i) =>
                    ChainGetOp(chain', t[1], t[2], t[3])
                       = ChainGetOp(chain, t[1], t[2], t[3])

(* C5: set_params(w, i, values) leaves the store in the state reached by
   set(p, w, i, values[p]) for p = 0..nparams-1 in ascending order: afterwards
   get(p, w, i) = values[p] for every p, and every cell of another (walker,
   iteration) pair is unchanged. *)
C5_BulkEquivalence == [][C5_SetParamsStep]_vars

\* set_params has written two different values next to a cell of another
\* (walker, iteration) pair that was written before
C5_Witness ==
    /\ Returned("Chain::set_params")
    /\ Len(last.args[3]) = 2
    /\ last.args[3][1] # last.args[3][2]
    /\ \E t \in DOMAIN chainLog :
          /\ (t[2] # last.args[1] \/ t[3] # last.args[2])
          /\ ChainGetOp(chain, t[1], t[2], t[3]).val # 0
    /\ ChainGetOp(chain, 1, last.args[1], last.args[2]).val = last.args[3][2]

IsPreconditionPanic(pn) ==
    /\ Len(pn) > 0
    /\ pn[1] \in {"assertion failed: param_idx < self.nparams",
                  "assertion failed: walker_idx < self.nwalkers",
                  "assertion failed: iteration_idx < self.niterations",
                  "iteration index "}

C6_Step ==
    /\ (/\ last'.op \in {"Chain::set", "Chain::get"}
        /\ \/ last'.args[1] >= chain.nparams
           \/ last'.args[2] >= chain.nwalkers
           \/ last'.args[3] >= chain.niterations)
       => /\ IsPreconditionPanic(last'.panic)
          /\ last'.ret = Unit
          /\ chain' = chain
    /\ (/\ last'.op \in {"ProbStore::set", "ProbStore::get"}
        /\ \/ last'.args[1] >= prob.nwalkers
           \/ last'.args[2] >= prob.niterations)
       => /\ IsPreconditionPanic(last'.panic)
          /\ last'.ret = Unit
          /\ prob' = prob

(* C6: get and set of either store, called with any index greater than or
   equal to its dimension (every call on a store with a zero dimension
   included), fail on the precondition: no value of another cell is returned,
   no cell is written, the index is not wrapped or clamped into range. *)
C6_OutOfBoundsRejected == [][C6_Step]_vars

\* a set was refused whose parameter index is out of range while the linear
\* index it would give is a slot of the buffer
C6_Witness ==
    /\ last.op = "Chain::set"
    /\ Panicked(last)
    /\ last.args[1] >= chain.nparams
    /\ last.args[2] < chain.nwalkers
    /\ last.args[3] < chain.niterations
    /\ ChainIndex(chain, last.args[1], last.args[2], last.args[3]).val < Len(chain.data)

(* C7, as claimed: set_params fails whenever len(values) # nparams and
   whenever walker_idx >= nwalkers or iteration_idx >= niterations, for every
   shape, nparams = 0 with an empty slice included. *)
C7_Original ==
    last.op = "Chain::set_params" =>
       ((\/ Len(last.args[3]) # chain.nparams
         \/ last.args[1] >= chain.nwalkers
         \/ last.args[2] >= chain.niterations) => Panicked(last))

(* C7, amended: set_params fails whenever len(values) # nparams; with
   len(values) = nparams >= 1 it fails whenever walker_idx >= nwalkers or
   iteration_idx >= niterations; with nparams = 0 and an empty slice it
   returns without failing whatever the two indices are. *)
C7_SetParamsFailures ==
    last.op = "Chain::set_params" =>
       /\ Len(last.args[3]) # chain.nparams =>
             /\ Len(last.panic) = 3
             /\ last.panic[1] = "assertion failed: left == right"
             /\ last.panic[2] = Len(last.args[3])
             /\ last.panic[3] = chain.nparams
       /\ (/\ Len(last.args[3]) = chain.nparams
           /\ chain.nparams >= 1
           /\ \/ last.args[1] >= chain.nwalkers
              \/ last.args[2] >= chain.niterations)
          => IsPreconditionPanic(last.panic)
       /\ (Len(last.args[3]) = chain.nparams /\ chain.nparams = 0) => ~Panicked(last)

\* set_params returned on a store without parameters though the walker index
\* is out of range
C7_Witness ==
    /\ Returned("Chain::set_params")
    /\ chain.nparams = 0
    /\ Len(last.args[3]) = 0
    /\ last.args[1] >= chain.nwalkers

NamesIteration(pn, iteration_idx, niterations) ==
    /\ Len(pn) = 4
    /\ pn[1] = "iteration index "
    /\ pn[2] = iteration_idx
    /\ pn[3] = ", number of iterations required: "
    /\ pn[4] = niterations

(* C8, as claimed: every out-of-range failure of ProbStore set and get,
   whether the walker index or the iteration index offends, carries a
   diagnostic naming the iteration index passed and the iteration count. *)
C8_Original ==
    (/\ last.op \in {"ProbStore::set", "ProbStore::get"}
     /\ \/ last.args[1] >= prob.nwalkers
        \/ last.args[2] >= prob.niterations)
    => NamesIteration(last.panic, last.args[2], prob.niterations)

(* C8, amended: an out-of-range failure of ProbStore set and get carries the
   diagnostic naming the iteration index passed and the iteration count when
   the walker index is in range and the iteration index is not; when the
   walker index is out of range the failure is the bare walker assertion,
   naming neither, whether or not the iteration index is in range. *)
C8_Diagnostics ==
    last.op \in {"ProbStore::set", "ProbStore::get"} =>
       /\ (last.args[1] < prob.nwalkers /\ last.args[2] >= prob.niterations)
          => NamesIteration(last.panic, last.args[2], prob.niterations)
       /\ last.args[1] >= prob.nwalkers
          => /\ Len(last.panic) = 1
             /\ last.panic[1] = "assertion failed: walker_idx < self.nwalkers"

\* a set failed with both indices out of range
C8_Witness ==
    /\ last.op = "ProbStore::set"
    /\ Panicked(last)
    /\ last.args[1] >= prob.nwalkers
    /\ last.args[2] > prob.niterations

C9_Step ==
    (/\ last'.op \in {"Chain::set", "Chain::set_params",
                      "ProbStore::set", "ProbStore::set_probs"}
     /\ Panicked(last'))
    => chain' = chain /\ prob' = prob

(* C9: whenever set, set_params or set_probs fails (wrong slice length, or an
   index out of bounds), every cell of the store holds the value it held
   before the call: the slice length is validated before any cell is
   mutated. *)
C9_NoPartialWrites == [][C9_Step]_vars

\* set_params failed on a slice longer than nparams whose first values would
\* have changed cells of a valid walker and iteration
C9_Witness ==
    /\ last.op = "Chain::set_params"
    /\ Panicked(last)
    /\ chain.nparams >= 1
    /\ Len(last.args[3]) > chain.nparams
    /\ last.args[1] < chain.nwalkers
    /\ last.args[2] < chain.niterations
    /\ ChainGetOp(chain, 0, last.args[1], last.args[2]).val # last.args[3][1]

(* C10, as claimed: Chain::new has no failure mode: for every triple of
   dimensions it succeeds with a buffer of exactly
   nparams*nwalkers*niterations cells, all 0.0, and neither the size product
   nor the index of a valid triple wraps into a shorter buffer or an aliasing
   slot. *)
C10_ConstructionInfallible ==
    /\ last.op = "Chain::new" =>
          /\ ~Panicked(last)
          /\ Len(chain.data) = last.args[1] * last.args[2] * last.args[3]
          /\ \A k \in 1..Len(chain.data) : chain.data[k] = 0
    /\ HasChain =>
          /\ Len(chain.data) = chain.nparams * chain.nwalkers * chain.niterations
          /\ \A t \in DOMAIN chainLog :
                LET g == ChainGetOp(chain, t[1], t[2], t[3])
                IN  ~Panicked(g) /\ g.val = chainLog[t]

\* two valid triples share a slot: a write to one is read at the other
C10_Aliasing ==
    /\ Returned("Chain::get")
    /\ last.args \in DOMAIN chainLog
    /\ last.ret # <<chainLog[last.args]>>

====
